---- MODULE Spec2Model ----
(***************************************************************************)
(* Model of src/app.py: the Streamlit script that fetches a Google Trends  *)
(* series for a keyword, cleans it, infers a seasonal period, runs STL and *)
(* assembles the result table.                                             *)
(*                                                                         *)
(* Time is counted in ticks; TicksPerDay ticks make one day.  A data frame *)
(* is a record [rows, cols]: rows is the sequence of its rows in position  *)
(* order, each row [ts, val] an index label and the row's value, and cols  *)
(* the set of its column names.  A row's value, the same in every value   *)
(* column, is the position the provider returned the row at, which         *)
(* identifies the row through cleaning.                                    *)
(* Strings the script inspects (the keyword, column names) are sequences   *)
(* of characters.                                                          *)
(***************************************************************************)
EXTENDS Integers, Sequences, FiniteSets, TLC

VARIABLES
    pc,        \* position of the script run / of the call under test
    kw,        \* text of the keyword input widget (app.py:39)
    provider,  \* the table the external source currently holds
    cache,     \* st.cache_data store of fetch_trends: keyword -> entry
    now,       \* wall clock, in seconds
    ticks,     \* number of clock advances so far (bounds the clock)
    fetchArg,  \* argument of the fetch_trends call of this run
    called,    \* how this run's fetch_trends call went
    raw,       \* what pytrends.interest_over_time() returned in this run
    df,        \* the script's df
    col_name,  \* the script's col_name
    y,         \* the script's y: the selected column as a series
    dt_index,  \* the index handed to infer_period
    period,    \* the script's period (0: not computed)
    res,       \* the STL result
    df_plot,   \* the script's df_plot (the result table)
    reported,  \* outcomes reported to the user in this run
    shown,     \* artefacts rendered in this run
    stages,    \* pipeline stages executed in this run
    lastCall   \* record of the latest direct fetch_trends call

vars == <<pc, kw, provider, cache, now, ticks, fetchArg, called, raw, df,
          col_name, y, dt_index, period, res, df_plot, reported, shown, stages,
          lastCall>>

----------------------------------------------------------------------------
(* Bounds of the model *)

MaxRows == 4        \* rows of a provider table
MaxTs == 1          \* largest index label of a provider table, in ticks
MaxKwLen == 2       \* characters typed into the keyword widget
MaxGaps == 3        \* consecutive gaps of an infer_period input
BackTicks == 1      \* largest backward step of an infer_period input
MaxGapTicks == 17   \* largest forward step of an infer_period input
MaxTicks == 4       \* clock advances

(* Program constants *)

TTL == 3600         \* st.cache_data(ttl=3600)
TicksPerDay == 2    \* ticks in the day unit of astype("timedelta64[D]")

----------------------------------------------------------------------------
(* Small helpers *)

SeqsUpTo(S, n) == UNION {[1..k -> S] : k \in 0..n}

Last(s) == s[Len(s)]

Front(s) == SubSeq(s, 1, Len(s) - 1)

Range(s) == {s[i] : i \in 1..Len(s)}

----------------------------------------------------------------------------
(* infer_period, app.py:73-84 *)

\* np.diff(dt_index.values)
NpDiff(idx) == [i \in 1..(Len(idx) - 1) |-> idx[i + 1] - idx[i]]

\* .astype("timedelta64[D]").astype(int): whole days, rounded down
AsDays(deltas) == [i \in 1..Len(deltas) |-> deltas[i] \div TicksPerDay]

RECURSIVE Insert(_, _)
Insert(x, s) ==
    IF s = <<>> THEN <<x>>
    ELSE IF x < Head(s) THEN <<x>> \o s
    ELSE <<Head(s)>> \o Insert(x, Tail(s))

RECURSIVE SortInts(_)
SortInts(s) == IF s = <<>> THEN <<>> ELSE Insert(Head(s), SortInts(Tail(s)))

\* np.median: the middle element, or the mean of the two middle elements.
\* The result is a float with a possible .5; it is kept as twice its value.
NpMedian2(xs) ==
    LET s == SortInts(xs)
        n == Len(s)
    IN  IF n % 2 = 1 THEN 2 * s[(n + 1) \div 2]
        ELSE s[n \div 2] + s[n \div 2 + 1]

\* int(float): truncation toward zero, of a float given as twice its value
IntOfHalves(m2) == IF m2 >= 0 THEN m2 \div 2 ELSE -((-m2) \div 2)

InferPeriodStrict(idx) ==
    IF Len(idx) < 3 THEN 12
    ELSE LET deltas == AsDays(NpDiff(idx))
             med == IntOfHalves(NpMedian2(deltas))
         IN  IF med <= 1 THEN 7
             ELSE IF med < 7 THEN 52
             ELSE 12

InferPeriod(idx) ==
    IF Len(idx) < 3 THEN 12
    ELSE LET deltas == AsDays(NpDiff(idx))
             med == IntOfHalves(NpMedian2(deltas))
         IN  IF med <= 1 THEN 7
             ELSE IF med <= 7 THEN 52
             ELSE 12

----------------------------------------------------------------------------
(* The keyword, app.py:39, 103, 109, 120 *)

Whitespace == {" "}

Chars == {" ", "a"}

Keywords == SeqsUpTo(Chars, MaxKwLen)

RECURSIVE LStrip(_)
LStrip(s) ==
    IF s = <<>> THEN s
    ELSE IF Head(s) \in Whitespace THEN LStrip(Tail(s))
    ELSE s

RECURSIVE RStrip(_)
RStrip(s) ==
    IF s = <<>> THEN s
    ELSE IF Last(s) \in Whitespace THEN RStrip(Front(s))
    ELSE s

StripLeadingOnly(s) == LStrip(s)

\* str.strip(): leading and trailing whitespace removed
Strip(s) == RStrip(LStrip(s))

\* the keywords fetch_trends can be called with
Keys == {Strip(k) : k \in Keywords} \ {<<>>}

----------------------------------------------------------------------------
(* The provider: pytrends.interest_over_time(), app.py:52-60 *)

IsPartial == <<"isPartial">>

Other == <<"other">>

Labels == 0..MaxTs

\* A world is what the source holds: the index labels of its rows in the
\* order it returns them, and which columns its reply carries: the value
\* column named after the requested keyword ("kw"), a value column under
\* another name ("other"), the completeness flag ("flag").  The source
\* holding nothing answers with an empty frame, pd.DataFrame().
Worlds ==
    {[index |-> <<>>, shape |-> {}]}
    \cup {[index |-> s, shape |-> c] :
             s \in SeqsUpTo(Labels, MaxRows) \ {<<>>},
             c \in (SUBSET {"kw", "other", "flag"}) \ {{}}}

Reply(w, keyword) ==
    [rows |-> [i \in 1..Len(w.index) |-> [ts |-> w.index[i], val |-> i]],
     cols |-> (IF "kw" \in w.shape THEN {keyword} ELSE {})
              \cup (IF "other" \in w.shape THEN {Other} ELSE {})
              \cup (IF "flag" \in w.shape THEN {IsPartial} ELSE {})]

----------------------------------------------------------------------------
(* fetch_trends, app.py:49-71 *)

EmptyFrame == [rows |-> <<>>, cols |-> {}]

EmptyBothAxes(d) == Len(d.rows) = 0 /\ d.cols = {}

\* DataFrame.empty: some axis has length 0
Empty(d) == Len(d.rows) = 0 \/ d.cols = {}

DropFirst(rows) == SubSeq(rows, 2, Len(rows))

\* df.iloc[:-1]
DropLast(rows) == SubSeq(rows, 1, Len(rows) - 1)

\* pd.to_datetime(df.index): the provider's index holds datetimes already,
\* which the conversion returns as they are
ToDatetime(rows) == rows

RECURSIVE InsertRow(_, _)
InsertRow(r, s) ==
    IF s = <<>> THEN <<r>>
    ELSE IF r.ts < Head(s).ts THEN <<r>> \o s
    ELSE <<Head(s)>> \o InsertRow(r, Tail(s))

NoSort(rows) == rows

\* df.sort_index(): ascending by index label.  Rows with equal labels are
\* kept in their relative order here; pandas leaves that order open, and no
\* property below depends on it.
RECURSIVE SortIndex(_)
SortIndex(rows) ==
    IF rows = <<>> THEN <<>>
    ELSE InsertRow(Last(rows), SortIndex(Front(rows)))

\* the body of fetch_trends applied to the provider's reply, lines 60-71
FetchTrends(reply) ==
    IF Empty(reply) THEN reply
    ELSE [rows |-> SortIndex(ToDatetime(DropLast(reply.rows))),
          cols |-> reply.cols \ {IsPartial}]

\* st.cache_data(ttl=3600): an entry is served while younger than the ttl
CacheFreshInclusive(entry, t) == t - entry.storedAt <= TTL

CacheFresh(entry, t) == t - entry.storedAt < TTL

CacheHit(c, k, t) == k \in DOMAIN c /\ CacheFresh(c[k], t)

CacheStore(c, k, d, t) == (k :> [df |-> d, storedAt |-> t]) @@ c

NoCache == [k \in {} |-> EmptyFrame]

----------------------------------------------------------------------------
(* The STL call and the result table, app.py:125-142 *)

\* df[col_name].astype(float): the selected column, on the frame's index
SelectColumn(d, c) == d.rows

IndexOf(series) == [i \in 1..Len(series) |-> series[i].ts]

MinOf(S) == CHOOSE m \in S : \A x \in S : m <= x

\* STL(y, period=period, robust=True).fit() when it returns: three series on
\* the index of y that add up to y.  The numbers stand for the library's
\* smoothing, which the script does not inspect.
STLFit(series, p) ==
    LET n == Len(series)
        level == IF n = 0 THEN 0 ELSE MinOf({series[i].val : i \in 1..n})
    IN  [trend |-> [i \in 1..n |-> [ts |-> series[i].ts, val |-> level]],
         seasonal |-> [i \in 1..n |-> [ts |-> series[i].ts, val |-> 0]],
         resid |-> [i \in 1..n |->
                       [ts |-> series[i].ts, val |-> series[i].val - level]]]

NoResult == [trend |-> <<>>, seasonal |-> <<>>, resid |-> <<>>]

AssembleFront(series, r) ==
    [i \in 1..(Len(series) - 1) |->
        [date |-> series[i].ts,
         original |-> series[i].val,
         trend |-> r.trend[i].val,
         seasonal |-> r.seasonal[i].val,
         remainder |-> r.resid[i].val]]

\* pd.DataFrame({"date": y.index, "original": y.values, "trend": res.trend,
\*               "seasonal": res.seasonal, "remainder": res.resid})
Assemble(series, r) ==
    [i \in 1..Len(series) |->
        [date |-> series[i].ts,
         original |-> series[i].val,
         trend |-> r.trend[i].val,
         seasonal |-> r.seasonal[i].val,
         remainder |-> r.resid[i].val]]

----------------------------------------------------------------------------
(* One run of the script, app.py:102-154 *)

NoCall == [made |-> FALSE, key |-> <<>>, had |-> FALSE, age |-> 0,
           hit |-> FALSE, fetched |-> FALSE, raised |-> FALSE,
           result |-> EmptyFrame]

RunVars == <<fetchArg, called, raw, df, col_name, y, dt_index, period, res,
             df_plot, reported, shown, stages>>

\* Nothing of a run has happened yet.
FreshRun ==
    /\ fetchArg = <<>>
    /\ called = "no"
    /\ raw = EmptyFrame
    /\ df = EmptyFrame
    /\ col_name = <<>>
    /\ y = <<>>
    /\ dt_index = <<>>
    /\ period = 0
    /\ res = NoResult
    /\ df_plot = <<>>
    /\ reported = {}
    /\ shown = {}
    /\ stages = {}

\* The store after an earlier run fetched keyword k from world w.
WarmCache(w, k) == CacheStore(NoCache, k, FetchTrends(Reply(w, k)), 0)

Init ==
    /\ pc = "idle"
    /\ kw = <<>>
    /\ provider \in Worlds
    /\ cache \in {NoCache} \cup {WarmCache(provider, k) : k \in Keys}
    /\ now = 0
    /\ ticks = 0
    /\ lastCall = NoCall
    /\ FreshRun

\* The user types a keyword and presses "Run analysis", lines 39-40, 102.
Press ==
    /\ pc = "idle"
    /\ \E k \in Keywords : kw' = k
    /\ pc' = "validate"
    /\ UNCHANGED <<provider, cache, now, ticks, lastCall>>
    /\ UNCHANGED RunVars

\* lines 103-105
Validate ==
    /\ pc = "validate"
    /\ stages' = stages \cup {"validate"}
    /\ IF Strip(kw) = <<>>
       THEN /\ reported' = reported \cup {"InvalidInput"}
            /\ pc' = "done"
       ELSE /\ reported' = reported
            /\ pc' = "fetch"
    /\ UNCHANGED <<kw, provider, cache, now, ticks, lastCall, fetchArg, called,
                   raw, df, col_name, y, dt_index, period, res, df_plot, shown>>

\* lines 107-113, the call served from the cache
FetchHit ==
    /\ pc = "fetch"
    /\ CacheHit(cache, Strip(kw), now)
    /\ stages' = stages \cup {"fetch"}
    /\ fetchArg' = Strip(kw)
    /\ called' = "hit"
    /\ df' = cache[Strip(kw)].df
    /\ pc' = "empty_check"
    /\ UNCHANGED <<kw, provider, cache, now, ticks, lastCall, raw, col_name, y,
                   dt_index, period, res, df_plot, reported, shown>>

\* lines 107-113, the call reaching the provider, which answers
FetchMiss ==
    /\ pc = "fetch"
    /\ ~CacheHit(cache, Strip(kw), now)
    /\ stages' = stages \cup {"fetch"}
    /\ fetchArg' = Strip(kw)
    /\ called' = "returned"
    /\ raw' = Reply(provider, Strip(kw))
    /\ df' = FetchTrends(raw')
    /\ cache' = CacheStore(cache, Strip(kw), df', now)
    /\ pc' = "empty_check"
    /\ UNCHANGED <<kw, provider, now, ticks, lastCall, col_name, y, dt_index,
                   period, res, df_plot, reported, shown>>

\* lines 107-113, the call reaching the provider, which raises after its
\* retries; nothing is stored
FetchRaise ==
    /\ pc = "fetch"
    /\ ~CacheHit(cache, Strip(kw), now)
    /\ stages' = stages \cup {"fetch"}
    /\ fetchArg' = Strip(kw)
    /\ called' = "raised"
    /\ reported' = reported \cup {"FetchFailure"}
    /\ pc' = "done"
    /\ UNCHANGED <<kw, provider, cache, now, ticks, lastCall, raw, df, col_name,
                   y, dt_index, period, res, df_plot, shown>>

\* lines 115-117
CheckEmpty ==
    /\ pc = "empty_check"
    /\ stages' = stages \cup {"empty_check"}
    /\ IF Empty(df)
       THEN /\ reported' = reported \cup {"EmptyResult"}
            /\ pc' = "done"
       ELSE /\ reported' = reported
            /\ pc' = "column_check"
    /\ UNCHANGED <<kw, provider, cache, now, ticks, lastCall, fetchArg, called,
                   raw, df, col_name, y, dt_index, period, res, df_plot, shown>>

ColumnCheckNoStop ==
    /\ pc = "column_check"
    /\ stages' = stages \cup {"column_check"}
    /\ col_name' = Strip(kw)
    /\ IF col_name' \notin df.cols
       THEN reported' = reported \cup {"ColumnMismatch"}
       ELSE reported' = reported
    /\ pc' = "infer"
    /\ UNCHANGED <<kw, provider, cache, now, ticks, lastCall, fetchArg, called,
                   raw, df, y, dt_index, period, res, df_plot, shown>>

ColumnCheckSkipped ==
    /\ pc = "column_check"
    /\ stages' = stages \cup {"column_check"}
    /\ col_name' = Strip(kw)
    /\ reported' = reported
    /\ pc' = "infer"
    /\ UNCHANGED <<kw, provider, cache, now, ticks, lastCall, fetchArg, called,
                   raw, df, y, dt_index, period, res, df_plot, shown>>

\* lines 120-123
CheckColumn ==
    /\ pc = "column_check"
    /\ stages' = stages \cup {"column_check"}
    /\ col_name' = Strip(kw)
    /\ IF col_name' \notin df.cols
       THEN /\ reported' = reported \cup {"ColumnMismatch"}
            /\ pc' = "done"
       ELSE /\ reported' = reported
            /\ pc' = "infer"
    /\ UNCHANGED <<kw, provider, cache, now, ticks, lastCall, fetchArg, called,
                   raw, df, y, dt_index, period, res, df_plot, shown>>

\* lines 125-126
Infer ==
    /\ pc = "infer"
    /\ stages' = stages \cup {"infer"}
    /\ y' = SelectColumn(df, col_name)
    /\ dt_index' = IndexOf(y')
    /\ period' = InferPeriod(dt_index')
    /\ pc' = "decompose"
    /\ UNCHANGED <<kw, provider, cache, now, ticks, lastCall, fetchArg, called,
                   raw, df, col_name, res, df_plot, reported, shown>>

\* lines 129-130, the library call returning
DecomposeOk ==
    /\ pc = "decompose"
    /\ stages' = stages \cup {"decompose"}
    /\ res' = STLFit(y, period)
    /\ pc' = "assemble"
    /\ UNCHANGED <<kw, provider, cache, now, ticks, lastCall, fetchArg, called,
                   raw, df, col_name, y, dt_index, period, df_plot, reported,
                   shown>>

\* lines 129-133, the library call raising.  Which series and periods the
\* library rejects is its own business; the script only catches the error.
DecomposeRaise ==
    /\ pc = "decompose"
    /\ stages' = stages \cup {"decompose"}
    /\ reported' = reported \cup {"DecompositionFailure"}
    /\ pc' = "done"
    /\ UNCHANGED <<kw, provider, cache, now, ticks, lastCall, fetchArg, called,
                   raw, df, col_name, y, dt_index, period, res, df_plot, shown>>

\* lines 136-142
AssembleTable ==
    /\ pc = "assemble"
    /\ stages' = stages \cup {"assemble"}
    /\ df_plot' = Assemble(y, res)
    /\ pc' = "present"
    /\ UNCHANGED <<kw, provider, cache, now, ticks, lastCall, fetchArg, called,
                   raw, df, col_name, y, dt_index, period, res, reported,
                   shown>>

\* lines 144-154
Present ==
    /\ pc = "present"
    /\ stages' = stages \cup {"present"}
    /\ shown' = {"chart", "table", "csv"}
    /\ reported' = reported \cup {"Success"}
    /\ pc' = "done"
    /\ UNCHANGED <<kw, provider, cache, now, ticks, lastCall, fetchArg, called,
                   raw, df, col_name, y, dt_index, period, res, df_plot>>

Next ==
    \/ Press
    \/ Validate
    \/ FetchHit
    \/ FetchMiss
    \/ FetchRaise
    \/ CheckEmpty
    \/ CheckColumn
    \/ Infer
    \/ DecomposeOk
    \/ DecomposeRaise
    \/ AssembleTable
    \/ Present

Spec == Init /\ [][Next]_vars

----------------------------------------------------------------------------
(* infer_period called on its own, on any index *)

GapRange == (-BackTicks)..MaxGapTicks

RECURSIVE IndexFromGaps(_, _)
IndexFromGaps(start, gaps) ==
    IF gaps = <<>> THEN <<start>>
    ELSE <<start>> \o IndexFromGaps(start + Head(gaps), Tail(gaps))

Indexes == {<<>>} \cup {IndexFromGaps(0, g) : g \in SeqsUpTo(GapRange, MaxGaps)}

InitPeriod ==
    /\ pc = "call"
    /\ kw = <<>>
    /\ provider = [index |-> <<>>, shape |-> {}]
    /\ cache = NoCache
    /\ now = 0
    /\ ticks = 0
    /\ lastCall = NoCall
    /\ fetchArg = <<>>
    /\ called = "no"
    /\ raw = EmptyFrame
    /\ df = EmptyFrame
    /\ col_name = <<>>
    /\ y = <<>>
    /\ period = 0
    /\ res = NoResult
    /\ df_plot = <<>>
    /\ reported = {}
    /\ shown = {}
    /\ stages = {}
    /\ dt_index \in Indexes

InferCall ==
    /\ pc = "call"
    /\ period' = InferPeriod(dt_index)
    /\ pc' = "returned"
    /\ UNCHANGED <<kw, provider, cache, now, ticks, lastCall, fetchArg, called,
                   raw, df, col_name, y, dt_index, res, df_plot, reported,
                   shown, stages>>

SpecPeriod == InitPeriod /\ [][InferCall]_vars

----------------------------------------------------------------------------
(* fetch_trends called on its own, at any times, app.py:49-71 *)

CallKeys == {<<"a">>, <<"a", "a">>}

\* the source answering as pytrends does: the keyword's column and the
\* flag, dates ascending
NormalWorlds ==
    {w \in Worlds :
        /\ w.shape = {"kw", "flag"}
        /\ Len(w.index) > 1
        /\ \A i \in 1..(Len(w.index) - 1) : w.index[i] < w.index[i + 1]}

InitCache ==
    /\ pc = "serving"
    /\ kw = <<>>
    /\ provider \in NormalWorlds
    /\ cache = NoCache
    /\ now = 0
    /\ ticks = 0
    /\ lastCall = NoCall
    /\ FreshRun

\* time passes
Tick ==
    /\ pc = "serving"
    /\ ticks < MaxTicks
    /\ ticks' = ticks + 1
    /\ \E d \in {1, TTL - 1} : now' = now + d
    /\ UNCHANGED <<pc, kw, provider, cache, lastCall>>
    /\ UNCHANGED RunVars

CallRecord(k) ==
    [made |-> TRUE, key |-> k, had |-> k \in DOMAIN cache,
     age |-> IF k \in DOMAIN cache THEN now - cache[k].storedAt ELSE 0,
     hit |-> FALSE, fetched |-> FALSE, raised |-> FALSE, result |-> EmptyFrame]

\* a call served from the store: the function body does not run
CallHit ==
    /\ pc = "serving"
    /\ \E k \in CallKeys :
        /\ CacheHit(cache, k, now)
        /\ lastCall' = [CallRecord(k) EXCEPT !.hit = TRUE,
                                             !.result = cache[k].df]
    /\ UNCHANGED <<pc, kw, provider, cache, now, ticks>>
    /\ UNCHANGED RunVars

\* a call that runs the function body, whose result is stored
CallMiss ==
    /\ pc = "serving"
    /\ \E k \in CallKeys :
        /\ ~CacheHit(cache, k, now)
        /\ LET d == FetchTrends(Reply(provider, k))
           IN  /\ lastCall' = [CallRecord(k) EXCEPT !.fetched = TRUE,
                                                    !.result = d]
               /\ cache' = CacheStore(cache, k, d, now)
    /\ UNCHANGED <<pc, kw, provider, now, ticks>>
    /\ UNCHANGED RunVars

\* a call that runs the function body, which raises: nothing is stored
CallRaise ==
    /\ pc = "serving"
    /\ \E k \in CallKeys :
        /\ ~CacheHit(cache, k, now)
        /\ lastCall' = [CallRecord(k) EXCEPT !.fetched = TRUE,
                                             !.raised = TRUE]
    /\ UNCHANGED <<pc, kw, provider, cache, now, ticks>>
    /\ UNCHANGED RunVars

NextCache == Tick \/ CallHit \/ CallMiss \/ CallRaise

SpecCache == InitCache /\ [][NextCache]_vars

----------------------------------------------------------------------------
(* Properties *)

Abs(n) == IF n < 0 THEN -n ELSE n

\* the whole days in a step of delta ticks
WholeDays(delta) ==
    CHOOSE d \in (-Abs(delta))..Abs(delta) :
        d * TicksPerDay <= delta /\ delta < (d + 1) * TicksPerDay

DayGaps(idx) == [i \in 1..(Len(idx) - 1) |-> WholeDays(idx[i + 1] - idx[i])]

\* the k-th smallest element of g, by counting
KthSmallest(g, k) ==
    CHOOSE v \in Range(g) :
        /\ Cardinality({i \in 1..Len(g) : g[i] < v}) < k
        /\ k <= Cardinality({i \in 1..Len(g) : g[i] <= v})

\* twice the median of g
TwiceMedian(g) ==
    KthSmallest(g, (Len(g) + 1) \div 2) + KthSmallest(g, Len(g) \div 2 + 1)

\* the median of g with its fraction dropped
TruncatedMedian(g) ==
    LET m2 == TwiceMedian(g)
    IN  CHOOSE t \in (-Abs(m2))..Abs(m2) :
            IF m2 >= 0 THEN 2 * t <= m2 /\ m2 < 2 * t + 2
            ELSE 2 * t - 2 < m2 /\ m2 <= 2 * t

\* C1 as stated: infer_period returns 12 for fewer than 3 timestamps, and
\* otherwise 7, 52 or 12 as the median of the whole-day gaps is <= 1, in
\* (1, 7], or > 7 days.
C1_Original ==
    pc = "returned" =>
        period = IF Len(dt_index) < 3 THEN 12
                 ELSE IF TwiceMedian(DayGaps(dt_index)) <= 2 THEN 7
                 ELSE IF TwiceMedian(DayGaps(dt_index)) <= 14 THEN 52
                 ELSE 12

\* C1 amended: infer_period returns 12 for fewer than 3 timestamps, and
\* otherwise 7, 52 or 12 as the median of the whole-day gaps, truncated
\* toward zero to a whole number of days, is <= 1, in (1, 7], or > 7.
C1_TruncatedMedian ==
    pc = "returned" =>
        period = IF Len(dt_index) < 3 THEN 12
                 ELSE IF TruncatedMedian(DayGaps(dt_index)) <= 1 THEN 7
                 ELSE IF TruncatedMedian(DayGaps(dt_index)) <= 7 THEN 52
                 ELSE 12

\* a median of 1.5 days classified as daily
C1_Witness ==
    /\ pc = "returned"
    /\ Len(dt_index) >= 3
    /\ TwiceMedian(DayGaps(dt_index)) = 3
    /\ period = 7

NonDecreasing(rows) ==
    \A i \in 1..(Len(rows) - 1) : rows[i].ts <= rows[i + 1].ts

StrictlyIncreasing(rows) ==
    \A i \in 1..(Len(rows) - 1) : rows[i].ts < rows[i + 1].ts

DistinctLabels(rows) ==
    \A i, j \in 1..Len(rows) : i # j => rows[i].ts # rows[j].ts

ProviderReturnedRows == called = "returned" /\ Len(raw.rows) >= 1

\* C2 as stated: the series fetch_trends returns for a raw table of N >= 1
\* rows has at most N-1 rows and strictly increasing timestamps.
C2_Original ==
    ProviderReturnedRows =>
        /\ Len(df.rows) <= Len(raw.rows) - 1
        /\ StrictlyIncreasing(df.rows)

\* C2 amended: the series has at most N-1 rows and non-decreasing
\* timestamps; they are strictly increasing exactly when the rows kept (all
\* but the provider's last) have pairwise distinct timestamps.
C2_SortedNotDeduplicated ==
    ProviderReturnedRows =>
        /\ Len(df.rows) <= Len(raw.rows) - 1
        /\ NonDecreasing(df.rows)
        /\ StrictlyIncreasing(df.rows) <=> DistinctLabels(Front(raw.rows))

\* a cleaned series holding one timestamp twice
C2_Witness ==
    /\ ProviderReturnedRows
    /\ Len(df.rows) = 2
    /\ df.rows[1].ts = df.rows[2].ts

IsLatest(r, rows) == \A i \in 1..Len(rows) : rows[i].ts <= r.ts

\* C10 as stated: the row fetch_trends discards is one with the latest
\* timestamp, so the cleaned series is the raw table sorted by timestamp
\* without a latest row.
C10_Original ==
    ProviderReturnedRows =>
        \E j \in 1..Len(raw.rows) :
            /\ IsLatest(raw.rows[j], raw.rows)
            /\ Len(df.rows) = Len(raw.rows) - 1
            /\ Range(df.rows) = Range(raw.rows) \ {raw.rows[j]}
            /\ NonDecreasing(df.rows)

\* C10 amended: the row fetch_trends discards is the one in the last
\* position of the provider's table, so the cleaned series is the raw table
\* without its last row, sorted by timestamp.
C10_DropsLastPosition ==
    ProviderReturnedRows =>
        /\ Len(df.rows) = Len(raw.rows) - 1
        /\ Range(df.rows) = Range(raw.rows) \ {Last(raw.rows)}
        /\ NonDecreasing(df.rows)

\* a table whose last row is not its latest, cleaned
C10_Witness ==
    /\ ProviderReturnedRows
    /\ ~IsLatest(Last(raw.rows), raw.rows)
    /\ "fetch" \in stages
    /\ \E i \in 1..Len(df.rows) : IsLatest(df.rows[i], raw.rows)

\* C3: when the provider returns no row or one row, fetch_trends returns a
\* series without rows, the run ends reporting EmptyResult, and neither
\* period inference nor decomposition runs.
C3_EmptyResult ==
    (called = "returned" /\ Len(raw.rows) <= 1) =>
        /\ Len(df.rows) = 0
        /\ "infer" \notin stages
        /\ "decompose" \notin stages
        /\ "empty_check" \in stages => pc = "done"
        /\ pc = "done" => reported = {"EmptyResult"}

\* a run ended on a one-row reply
C3_Witness ==
    /\ called = "returned"
    /\ Len(raw.rows) = 1
    /\ pc = "done"
    /\ reported = {"EmptyResult"}

AllBlank(k) == \A i \in 1..Len(k) : k[i] \in Whitespace

\* t is k without its leading and trailing whitespace
IsTrimOf(t, k) ==
    \E i \in 1..(Len(k) + 1), j \in 0..Len(k) :
        /\ t = SubSeq(k, i, j)
        /\ \A n \in 1..Len(k) : (n < i \/ n > j) => k[n] \in Whitespace
        /\ t # <<>> => (t[1] \notin Whitespace /\ Last(t) \notin Whitespace)

\* C4 as stated: a reply with rows but no column named as the trimmed
\* keyword ends the run with ColumnMismatch, without decomposition.
C4_Original ==
    (ProviderReturnedRows /\ ~(\E c \in raw.cols : IsTrimOf(c, kw))) =>
        /\ "decompose" \notin stages
        /\ pc = "done" => reported = {"ColumnMismatch"}

\* C4 amended: such a reply ends the run with ColumnMismatch when it has at
\* least two rows and a column besides the completeness flag; with one row,
\* or no column besides the flag, the run ends with EmptyResult.  In both
\* cases decomposition does not run.
C4_MismatchAfterEmptiness ==
    (ProviderReturnedRows /\ ~(\E c \in raw.cols : IsTrimOf(c, kw))) =>
        /\ "decompose" \notin stages
        /\ pc = "done" =>
              reported = IF Len(raw.rows) >= 2 /\ raw.cols \ {IsPartial} # {}
                         THEN {"ColumnMismatch"}
                         ELSE {"EmptyResult"}

\* a run ended on a two-row reply that names its value column otherwise
C4_Witness ==
    /\ ProviderReturnedRows
    /\ Len(raw.rows) >= 2
    /\ raw.cols = {Other, IsPartial}
    /\ pc = "done"
    /\ reported = {"ColumnMismatch"}

\* C5: a keyword that is blank after trimming ends the run with
\* InvalidInput before fetch_trends is called; otherwise fetch_trends is
\* called with, and the column is named by, the trimmed keyword.
C5_TrimmedKeyword ==
    /\ AllBlank(kw) =>
          /\ called = "no"
          /\ "fetch" \notin stages
          /\ "validate" \in stages => pc = "done"
          /\ pc = "done" => reported = {"InvalidInput"}
    /\ ~AllBlank(kw) =>
          /\ "validate" \in stages => "InvalidInput" \notin reported
          /\ "fetch" \in stages => IsTrimOf(fetchArg, kw)
          /\ "column_check" \in stages => IsTrimOf(col_name, kw)

\* a keyword typed with whitespace around it, looked up trimmed
C5_Witness ==
    /\ ~AllBlank(kw)
    /\ kw[1] \in Whitespace \/ Last(kw) \in Whitespace
    /\ "column_check" \in stages
    /\ fetchArg # kw
    /\ col_name = fetchArg

Errors == {"InvalidInput", "FetchFailure", "EmptyResult", "ColumnMismatch",
           "DecompositionFailure"}

AllStages == {"validate", "fetch", "empty_check", "column_check", "infer",
              "decompose", "assemble", "present"}

C6_State ==
    /\ Cardinality(reported) <= 1
    /\ reported \subseteq Errors \cup {"Success"}
    /\ reported \cap Errors # {} => (pc = "done" /\ shown = {})
    /\ shown # {} =>
          /\ reported = {"Success"}
          /\ stages = AllStages
          /\ ~AllBlank(kw)
          /\ called \in {"hit", "returned"}
          /\ ~Empty(df)
          /\ col_name \in df.cols
          /\ res # NoResult
    /\ pc = "done" => Cardinality(reported) = 1

C6_Step ==
    reported \cap Errors # {} =>
        (stages' = stages /\ shown' = shown /\ reported' = reported
         /\ df_plot' = df_plot)

\* C6: an error outcome ends the run: no stage executes after it, the
\* chart, table and download appear only after every stage succeeded, and a
\* finished run has reported exactly one of the six outcomes.
C6_TerminalOutcomes == []C6_State /\ [][C6_Step]_vars

\* a run ended by a failed decomposition, nothing shown
C6_Witness ==
    /\ pc = "done"
    /\ reported = {"DecompositionFailure"}
    /\ stages = AllStages \ {"assemble", "present"}
    /\ shown = {}

\* C9: the result table has one row per row of the series passed to the
\* decomposer, in the same order and on the same dates, and exactly the
\* columns date, original, trend, seasonal, remainder.
C9_TableAligned ==
    "assemble" \in stages =>
        /\ Len(df_plot) = Len(y)
        /\ \A i \in 1..Len(df_plot) :
              /\ df_plot[i].date = y[i].ts
              /\ df_plot[i].original = y[i].val
              /\ DOMAIN df_plot[i] =
                    {"date", "original", "trend", "seasonal", "remainder"}

\* a table assembled from a series of two points
C9_Witness ==
    /\ "assemble" \in stages
    /\ Len(y) = 2
    /\ Len(df_plot) = 2

====
